---- MODULE Spec2Model ----
(***************************************************************************)
(* Model of main.py: the Datadog provisioning script for CloudSQL          *)
(* PostgreSQL.  The script is a sequential program; the model follows its  *)
(* control flow one operation (one psql_* call, one connect, one handler)  *)
(* per action and records everything it does to its environment in         *)
(* `trace': connection attempts, cursor acquisitions, statements executed, *)
(* errors logged, commits, closes.  The environment (psycopg2 and the      *)
(* PostgreSQL server) is modelled by the state `srv' and by faults drawn   *)
(* nondeterministically: a failing connect, a failing cursor acquisition,  *)
(* a failing statement.  conn.commit(), cursor.close() and conn.close()    *)
(* are taken to succeed on a connection that opened.                       *)
(***************************************************************************)
EXTENDS Integers, Sequences, FiniteSets, TLC

VARIABLES
    opts,      \* the parsed options handed to main()
    srv,       \* the server: databases, roles, memberships, per-database objects
    trace,     \* everything the script did, in order
    pc,        \* position in install_datadog / install_on
    conn,      \* install_datadog's local `conn': a connection id, 0 while unbound
    cur,       \* install_on's parameter `conn': a connection id
    todo,      \* the databases the for loop of install_datadog has still to visit
    returned,  \* what get_all_databases returned
    gotList,   \* whether get_all_databases returned at all
    nconn,     \* connection attempts so far (connection ids are 1..nconn)
    faults,    \* faults injected so far
    outcome,   \* "running", "returned" or "raised" (install_datadog's exit)
    input,     \* the arguments of the call under study (command line, lists)
    runs,      \* completed calls of install_on on the database under study
    after1     \* the server and the trace length after the first of them

vars == <<opts, srv, trace, pc, conn, cur, todo, returned, gotList, nconn,
          faults, outcome, input, runs, after1>>

\* What install_datadog never touches.
aux == <<input, runs, after1>>

(***************************************************************************)
(* Bounds                                                                  *)
(***************************************************************************)
MaxFaults == 2

\* Longest lists handed to psql_grant_on_schema_to_user
MaxGrants == 2

MaxSchemas == 2

\* Calls of install_on against one database
MaxRuns == 2

(***************************************************************************)
(* Program constants                                                       *)
(***************************************************************************)
DD_USER == "datadog"

DD_SCHEMA == "datadog"

DD_EXTENSION == "pg_stat_statements"

DD_FUNCTION ==
    "\nCREATE OR REPLACE FUNCTION " \o DD_SCHEMA \o ".explain_statement (\n"
    \o "   l_query text,\n   out explain JSON\n)\nRETURNS SETOF JSON AS\n$$\n"
    \o "BEGIN\n   RETURN QUERY EXECUTE 'EXPLAIN (FORMAT JSON) ' || l_query;\n"
    \o "END;\n$$\nLANGUAGE 'plpgsql'\nRETURNS NULL ON NULL INPUT\n"
    \o "SECURITY DEFINER;"

\* Python's None for opts.dd_password
None == "<None>"

PasswordLength == 16

(***************************************************************************)
(* Statements, as the f-strings of the source build them.  `text' is the   *)
(* SQL sent; the other fields are what the server acts on.                 *)
(***************************************************************************)
Stmt(kind, obj, priv, grantee, guard, text) ==
    [kind |-> kind, obj |-> obj, priv |-> priv, grantee |-> grantee,
     guard |-> guard, text |-> text]

CreateUserSql(user, password) ==
    Stmt("create_user", user, "", "", FALSE,
         "CREATE USER " \o user \o " WITH password '" \o password \o "';")

GrantRoleSql(role, user) ==
    Stmt("grant_role", role, "", user, FALSE,
         "GRANT " \o role \o " TO " \o user \o ";")

\* CreateSchemaSql without IF NOT EXISTS
CreateSchemaSqlUnguarded(schema) ==
    Stmt("create_schema", schema, "", "", FALSE,
         "CREATE SCHEMA " \o schema \o ";")

CreateSchemaSql(schema) ==
    Stmt("create_schema", schema, "", "", TRUE,
         "CREATE SCHEMA IF NOT EXISTS " \o schema \o ";")

\* CreateExtensionSql without IF NOT EXISTS
CreateExtensionSqlUnguarded(extension) ==
    Stmt("create_extension", extension, "", "", FALSE,
         "CREATE EXTENSION " \o extension \o ";")

CreateExtensionSql(extension) ==
    Stmt("create_extension", extension, "", "", TRUE,
         "CREATE EXTENSION IF NOT EXISTS " \o extension \o ";")

GrantOnSchemaSql(grant, schema, user) ==
    Stmt("grant_schema", schema, grant, user, FALSE,
         "GRANT " \o grant \o " ON SCHEMA " \o schema \o " TO " \o user \o ";")

CreateFunctionSql ==
    Stmt("create_function", DD_SCHEMA, "", "", TRUE, DD_FUNCTION)

SelectDatabasesSql ==
    Stmt("select_databases", "", "", "", FALSE,
         "SELECT datname FROM pg_database WHERE datname NOT LIKE 'template%' "
         \o "AND datname != 'cloudsqladmin' AND datname != 'postgres';")

(***************************************************************************)
(* The server.  Objects are counted, so that a duplicate would show.       *)
(***************************************************************************)
SchemaNames == {DD_SCHEMA, "public", "reports"}

\* A database as CREATE DATABASE leaves it: only the public schema.
FreshDb ==
    [schemas |-> [n \in SchemaNames |-> IF n = "public" THEN 1 ELSE 0],
     ext |-> 0, fn |-> 0, fnText |-> "", usage |-> {}]

Ok(s) == [ok |-> TRUE, srv |-> s]

Err(s) == [ok |-> FALSE, srv |-> s]

\* CREATE USER: an error when the role exists.
ExecCreateUser(s, st) ==
    IF st.obj \in s.roles THEN Err(s)
    ELSE Ok([s EXCEPT !.roles = @ \cup {st.obj}])

\* GRANT role TO user: both roles must exist; granting again is a no-op.
ExecGrantRole(s, st) ==
    IF st.obj \in s.roles /\ st.grantee \in s.roles
    THEN Ok([s EXCEPT !.members = @ \cup {<<st.obj, st.grantee>>}])
    ELSE Err(s)

\* CREATE SCHEMA [IF NOT EXISTS]: with the guard an existing schema is skipped,
\* without it an existing schema is an error.
ExecCreateSchema(s, db, st) ==
    IF st.obj \notin SchemaNames THEN Err(s)
    ELSE IF s.db[db].schemas[st.obj] > 0
         THEN (IF st.guard THEN Ok(s) ELSE Err(s))
         ELSE Ok([s EXCEPT !.db[db].schemas[st.obj] = @ + 1])

\* CREATE EXTENSION [IF NOT EXISTS]
ExecCreateExtension(s, db, st) ==
    IF s.db[db].ext > 0
    THEN (IF st.guard THEN Ok(s) ELSE Err(s))
    ELSE Ok([s EXCEPT !.db[db].ext = @ + 1])

\* GRANT priv ON SCHEMA schema TO user: the schema and the role must exist;
\* granting again is a no-op.
ExecGrantOnSchema(s, db, st) ==
    IF /\ st.obj \in SchemaNames
       /\ s.db[db].schemas[st.obj] > 0
       /\ st.grantee \in s.roles
    THEN Ok([s EXCEPT !.db[db].usage = @ \cup {<<st.priv, st.obj, st.grantee>>}])
    ELSE Err(s)

\* CREATE [OR REPLACE] FUNCTION schema.explain_statement: the schema must exist;
\* with OR REPLACE an existing function is replaced, without it it is an error.
ExecCreateFunction(s, db, st) ==
    IF s.db[db].schemas[st.obj] = 0 THEN Err(s)
    ELSE IF s.db[db].fn > 0
         THEN (IF st.guard THEN Ok([s EXCEPT !.db[db].fnText = st.text])
               ELSE Err(s))
         ELSE Ok([s EXCEPT !.db[db].fn = @ + 1, !.db[db].fnText = st.text])

\* cur.execute(sql) on a connection to database db, no fault injected.
Execute(s, db, st) ==
    CASE st.kind = "create_user" -> ExecCreateUser(s, st)
      [] st.kind = "grant_role" -> ExecGrantRole(s, st)
      [] st.kind = "create_schema" -> ExecCreateSchema(s, db, st)
      [] st.kind = "create_extension" -> ExecCreateExtension(s, db, st)
      [] st.kind = "grant_schema" -> ExecGrantOnSchema(s, db, st)
      [] st.kind = "create_function" -> ExecCreateFunction(s, db, st)
      [] OTHER -> Ok(s)

(***************************************************************************)
(* Events of the trace                                                     *)
(***************************************************************************)
Ev(ev, c, arg, ok) == [ev |-> ev, conn |-> c, arg |-> arg, ok |-> ok]

\* A fault chosen for one operation: NoFault, CursorFault (conn.cursor()
\* raises), or k >= 1 (the k-th statement of the operation raises).
NoFault == 0

CursorFault == -1

(***************************************************************************)
(* The body every psql_* function shares:                                  *)
(*     try: cur = conn.cursor(); for ...: cur.execute(...)                 *)
(*     except Exception as e: logger.error(e)                              *)
(*     finally: conn.commit(); cur.close()                                 *)
(* The statements run in one transaction; the first failing statement      *)
(* leaves the loop, and the commit of a failed transaction rolls it back.  *)
(* When conn.cursor() raised, `cur' is unbound and cur.close() raises      *)
(* UnboundLocalError out of the function.  logger.debug and                *)
(* conn.get_dsn_parameters() on an open connection do not raise.           *)
(***************************************************************************)
RECURSIVE ExecuteAll(_, _, _, _, _, _)
\* Statements i.. of stmts on connection c: [srv, events, failed]
ExecuteAll(s, c, db, stmts, fault, i) ==
    IF i > Len(stmts) THEN [srv |-> s, events |-> <<>>, failed |-> FALSE]
    ELSE LET r == Execute(s, db, stmts[i])
             ok == r.ok /\ fault # i
         IN IF ~ok
            THEN [srv |-> s,
                  events |-> <<Ev("execute", c, stmts[i].text, FALSE)>>,
                  failed |-> TRUE]
            ELSE LET rest == ExecuteAll(r.srv, c, db, stmts, fault, i + 1)
                 IN [srv |-> rest.srv,
                     events |-> <<Ev("execute", c, stmts[i].text, TRUE)>>
                                \o rest.events,
                     failed |-> rest.failed]

\* TryExecute with an except clause that re-raises the statement's error
TryExecuteReraising(s, c, db, name, stmts, fault, after) ==
    LET r == ExecuteAll(s, c, db, stmts, fault, 1)
    IN IF fault = CursorFault \/ r.failed
       THEN [srv |-> s,
             events |-> <<Ev("call", c, name, TRUE),
                          Ev("cursor", c, name, fault # CursorFault)>>
                        \o (IF fault = CursorFault THEN <<>> ELSE r.events)
                        \o <<Ev("log", c, "statement", FALSE),
                             Ev("commit", c, name, TRUE),
                             Ev("cursor_close", c, name, TRUE),
                             Ev("raise", c, "Error", FALSE)>>,
             raised |-> TRUE, failed |-> r.failed]
       ELSE [srv |-> r.srv,
             events |-> <<Ev("call", c, name, TRUE),
                          Ev("cursor", c, name, TRUE)>>
                        \o r.events \o after
                        \o <<Ev("commit", c, name, TRUE),
                             Ev("cursor_close", c, name, TRUE)>>,
             raised |-> FALSE, failed |-> FALSE]

\* One psql_* call: [srv, events, raised, failed].  `after' are the events of
\* the try block that follow the last statement when none failed.
TryExecute(s, c, db, name, stmts, fault, after) ==
    IF fault = CursorFault
    THEN [srv |-> s,
          events |-> <<Ev("call", c, name, TRUE),
                       Ev("cursor", c, name, FALSE),
                       Ev("log", c, "cursor", FALSE),
                       Ev("commit", c, name, TRUE),
                       Ev("raise", c, "UnboundLocalError", FALSE)>>,
          raised |-> TRUE, failed |-> FALSE]
    ELSE LET r == ExecuteAll(s, c, db, stmts, fault, 1)
         IN [srv |-> IF r.failed THEN s ELSE r.srv,
             events |-> <<Ev("call", c, name, TRUE),
                          Ev("cursor", c, name, TRUE)>>
                        \o r.events
                        \o (IF r.failed THEN <<Ev("log", c, "statement", FALSE)>>
                            ELSE after)
                        \o <<Ev("commit", c, name, TRUE),
                             Ev("cursor_close", c, name, TRUE)>>,
             raised |-> FALSE, failed |-> r.failed]

RECURSIVE Flatten(_)
Flatten(ss) == IF ss = <<>> THEN <<>> ELSE Head(ss) \o Flatten(Tail(ss))

create_datadog_function(s, c, db, fault) ==
    TryExecute(s, c, db, "create_datadog_function", <<CreateFunctionSql>>,
               fault, <<>>)

psql_create_extension(s, c, db, extension, fault) ==
    TryExecute(s, c, db, "psql_create_extension",
               <<CreateExtensionSql(extension)>>, fault, <<>>)

psql_create_schemas(s, c, db, schemas, fault) ==
    TryExecute(s, c, db, "psql_create_schemas",
               [i \in 1..Len(schemas) |-> CreateSchemaSql(schemas[i])],
               fault, <<>>)

\* GrantStatements with the loops exchanged
GrantStatementsSchemasOuter(schemas, grants, user) ==
    Flatten([k \in 1..Len(schemas) |->
                [g \in 1..Len(grants) |->
                    GrantOnSchemaSql(grants[g], schemas[k], user)]])

\* for grant in grants: for schema in schemas: one GRANT
GrantStatements(schemas, grants, user) ==
    Flatten([g \in 1..Len(grants) |->
                [k \in 1..Len(schemas) |->
                    GrantOnSchemaSql(grants[g], schemas[k], user)]])

psql_grant_on_schema_to_user(s, c, db, schemas, grants, user, fault) ==
    TryExecute(s, c, db, "psql_grant_on_schema_to_user",
               GrantStatements(schemas, grants, user), fault, <<>>)

psql_grant_roles_to_user(s, c, db, user, roles, fault) ==
    TryExecute(s, c, db, "psql_grant_roles_to_user",
               [i \in 1..Len(roles) |-> GrantRoleSql(roles[i], user)],
               fault, <<>>)

\* `password' is opts.dd_password, or the generated one when that is None.
psql_create_user(s, c, db, user, password, fault) ==
    TryExecute(s, c, db, "psql_create_user",
               <<CreateUserSql(user, password)>>, fault,
               <<Ev("print", c, "Created user " \o user \o " with password '"
                                \o password \o "'", TRUE)>>)


(***************************************************************************)
(* get_all_databases                                                       *)
(***************************************************************************)
\* datname LIKE 'template%'
LikeTemplate(n) == Len(n) >= 8 /\ SubSeq(n, 1, 8) = "template"

\* SelectDatabases without the last condition of the WHERE clause
SelectDatabasesKeepingPostgres(s) ==
    {n \in s.databases : ~LikeTemplate(n) /\ n # "cloudsqladmin"}

\* The rows of the catalog query, as a set.
SelectDatabases(s) ==
    {n \in s.databases :
        ~LikeTemplate(n) /\ n # "cloudsqladmin" /\ n # "postgres"}

\* The orders in which the server may return the rows (no ORDER BY).
Orderings(S) ==
    {q \in [1..Cardinality(S) -> S] : \A i, j \in DOMAIN q : i # j => q[i] # q[j]}

\* [events, raised, dbs]: dbs stays [] when the query fails.
get_all_databases(s, c, db, rows, fault) ==
    LET r == TryExecute(s, c, db, "get_all_databases", <<SelectDatabasesSql>>,
                        fault, <<>>)
    IN [events |-> r.events, raised |-> r.raised,
        dbs |-> IF r.failed \/ r.raised THEN <<>> ELSE rows]

(***************************************************************************)
(* psql_create_user's generated password                                   *)
(***************************************************************************)
RECURSIVE Repeat(_, _)
Repeat(ch, n) == IF n = 0 THEN "" ELSE ch \o Repeat(ch, n - 1)

\* Samples of ''.join(choice(ascii_letters + digits) for _ in range(16))
GeneratedPasswords == {Repeat("x", PasswordLength), Repeat("7", PasswordLength)}

EffectivePasswords(password) ==
    IF password = None THEN GeneratedPasswords ELSE {password}

(***************************************************************************)
(* The workflow: install_datadog and install_on                            *)
(***************************************************************************)
\* The database names a server may hold.
Names == {"template0", "templates", "cloudsqladmin", "postgres", "app",
          "mytemplate"}

Servers ==
    {[databases |-> D, roles |-> R, members |-> {},
      db |-> [n \in Names |-> FreshDb]] :
        D \in SUBSET Names, R \in {{"pg_monitor"}, {"pg_monitor", DD_USER}}}

Options ==
    [host : {"localhost"}, port : {"5432"}, username : {"postgres"},
     password : {"postgres"}, dbname : {"postgres", "app"},
     all_databases : BOOLEAN, dd_password : {None, "s3cret"}]

Init ==
    /\ opts \in Options
    /\ srv \in Servers
    /\ trace = <<>>
    /\ pc = "connect"
    /\ conn = 0
    /\ cur = 0
    /\ todo = <<>>
    /\ returned = <<>>
    /\ gotList = FALSE
    /\ nconn = 0
    /\ faults = 0
    /\ outcome = "running"
    /\ input = <<>>
    /\ runs = 0
    /\ after1 = <<>>

\* The faults the environment may still inject into an operation of n statements.
FaultChoices(n) ==
    {NoFault} \cup (IF faults < MaxFaults THEN {CursorFault} \cup (1..n) ELSE {})

ConnectFaults == {NoFault} \cup (IF faults < MaxFaults THEN {1} ELSE {})

Count(f) == IF f = NoFault THEN faults ELSE faults + 1

\* The database a connection id is connected to.
ConnDb(c) ==
    trace[CHOOSE i \in DOMAIN trace : trace[i].ev = "connect" /\ trace[i].conn = c].arg

\* psycopg2.connect(...): fails when the database does not exist, or by fault.
Connects(db, f) == db \in srv.databases /\ f = NoFault

\* conn = psycopg2.connect(host=..., dbname=opts.dbname, ...)
Connect ==
    /\ pc = "connect"
    /\ \E f \in ConnectFaults :
        /\ faults' = Count(f)
        /\ nconn' = nconn + 1
        /\ trace' = Append(trace, Ev("connect", nconn + 1, opts.dbname,
                                     Connects(opts.dbname, f)))
        /\ IF Connects(opts.dbname, f)
           THEN conn' = nconn + 1 /\ pc' = "create_user"
           ELSE conn' = conn /\ pc' = "except"
    /\ UNCHANGED <<aux, opts, srv, cur, todo, returned, gotList, outcome>>

\* psql_create_user(conn, user=DD_USER, password=opts.dd_password)
CreateUser ==
    /\ pc = "create_user"
    /\ \E f \in FaultChoices(1), pw \in EffectivePasswords(opts.dd_password) :
        LET r == psql_create_user(srv, conn, ConnDb(conn), DD_USER, pw, f)
        IN /\ faults' = Count(f)
           /\ srv' = r.srv
           /\ trace' = trace \o r.events
           /\ pc' = IF r.raised THEN "except" ELSE "grant_roles"
    /\ UNCHANGED <<aux, opts, conn, cur, todo, returned, gotList, nconn, outcome>>

\* psql_grant_roles_to_user(conn, user=DD_USER, roles=["pg_monitor"]), then the
\* branch on opts.all_databases
GrantRoles ==
    /\ pc = "grant_roles"
    /\ \E f \in FaultChoices(1) :
        LET r == psql_grant_roles_to_user(srv, conn, ConnDb(conn), DD_USER,
                                          <<"pg_monitor">>, f)
        IN /\ faults' = Count(f)
           /\ srv' = r.srv
           /\ trace' = trace \o r.events
                       \o (IF ~r.raised /\ ~opts.all_databases
                           THEN <<Ev("call", conn, "install_on", TRUE)>>
                           ELSE <<>>)
           /\ pc' = IF r.raised THEN "except"
                    ELSE IF opts.all_databases THEN "get_all_databases"
                    ELSE "create_schemas"
           /\ cur' = IF ~r.raised /\ ~opts.all_databases THEN conn ELSE cur
    /\ UNCHANGED <<aux, opts, conn, todo, returned, gotList, nconn, outcome>>

\* for database in get_all_databases(conn): the call
GetAllDatabases ==
    /\ pc = "get_all_databases"
    /\ \E f \in FaultChoices(1), rows \in Orderings(SelectDatabases(srv)) :
        LET r == get_all_databases(srv, conn, ConnDb(conn), rows, f)
        IN /\ faults' = Count(f)
           /\ trace' = trace \o r.events
           /\ pc' = IF r.raised THEN "except" ELSE "for"
           /\ todo' = r.dbs
           /\ returned' = r.dbs
           /\ gotList' = ~r.raised
    /\ UNCHANGED <<aux, opts, srv, conn, cur, nconn, outcome>>

\* the for loop is exhausted
ForDone ==
    /\ pc = "for"
    /\ todo = <<>>
    /\ pc' = "finally"
    /\ UNCHANGED <<aux, opts, srv, trace, conn, cur, todo, returned, gotList, nconn,
                   faults, outcome>>

\* install_on(psycopg2.connect(host=..., dbname=database, ...)): the connect
ConnectDatabase ==
    /\ pc = "for"
    /\ todo # <<>>
    /\ \E f \in ConnectFaults :
        /\ faults' = Count(f)
        /\ nconn' = nconn + 1
        /\ trace' = trace
                    \o <<Ev("connect", nconn + 1, Head(todo),
                            Connects(Head(todo), f))>>
                    \o (IF Connects(Head(todo), f)
                        THEN <<Ev("call", nconn + 1, "install_on", TRUE)>>
                        ELSE <<>>)
        /\ IF Connects(Head(todo), f)
           THEN cur' = nconn + 1 /\ pc' = "create_schemas"
           ELSE cur' = cur /\ pc' = "except"
    /\ todo' = Tail(todo)
    /\ UNCHANGED <<aux, opts, srv, conn, returned, gotList, outcome>>

\* One step of install_on's try block: an exception goes to its except clause.
InstallStep(r, f, next) ==
    /\ faults' = Count(f)
    /\ srv' = r.srv
    /\ trace' = trace \o r.events
    /\ pc' = IF r.raised THEN "install_on_except" ELSE next
    /\ UNCHANGED <<aux, opts, conn, cur, todo, returned, gotList, nconn, outcome>>

\* psql_create_schemas(conn, schemas=[DD_SCHEMA])
CreateSchemas ==
    /\ pc = "create_schemas"
    /\ \E f \in FaultChoices(1) :
        InstallStep(psql_create_schemas(srv, cur, ConnDb(cur), <<DD_SCHEMA>>, f),
                    f, "create_extension")

\* psql_create_extension(conn, extension=DD_EXTENSION)
CreateExtension ==
    /\ pc = "create_extension"
    /\ \E f \in FaultChoices(1) :
        InstallStep(psql_create_extension(srv, cur, ConnDb(cur), DD_EXTENSION, f),
                    f, "grant_on_schema")

\* psql_grant_on_schema_to_user(conn, schemas=[DD_SCHEMA, "public"],
\*                              grants=["USAGE"], user=DD_USER)
GrantOnSchema ==
    /\ pc = "grant_on_schema"
    /\ \E f \in FaultChoices(2) :
        InstallStep(psql_grant_on_schema_to_user(srv, cur, ConnDb(cur),
                        <<DD_SCHEMA, "public">>, <<"USAGE">>, DD_USER, f),
                    f, "create_function")

\* create_datadog_function(conn)
CreateFunction ==
    /\ pc = "create_function"
    /\ \E f \in FaultChoices(1) :
        InstallStep(create_datadog_function(srv, cur, ConnDb(cur), f),
                    f, "install_on_finally")

\* install_on: except Exception as e: logger.error(e)
InstallOnExcept ==
    /\ pc = "install_on_except"
    /\ trace' = Append(trace, Ev("log", cur, "install_on", FALSE))
    /\ pc' = "install_on_finally"
    /\ UNCHANGED <<aux, opts, srv, conn, cur, todo, returned, gotList, nconn, faults,
                   outcome>>

\* InstallOnFinally closing the connection it was given
InstallOnFinallyClosing ==
    /\ pc = "install_on_finally"
    /\ trace' = trace \o <<Ev("commit", cur, "install_on", TRUE),
                           Ev("close", cur, "install_on", TRUE)>>
    /\ pc' = IF opts.all_databases THEN "for" ELSE "finally"
    /\ UNCHANGED <<aux, opts, srv, conn, cur, todo, returned, gotList, nconn,
                   faults, outcome>>

\* install_on: finally: conn.commit(); then back in install_datadog
InstallOnFinally ==
    /\ pc = "install_on_finally"
    /\ trace' = Append(trace, Ev("commit", cur, "install_on", TRUE))
    /\ pc' = IF opts.all_databases THEN "for" ELSE "finally"
    /\ UNCHANGED <<aux, opts, srv, conn, cur, todo, returned, gotList, nconn, faults,
                   outcome>>

\* install_datadog: except Exception as e: logger.error(e)
Except ==
    /\ pc = "except"
    /\ trace' = Append(trace, Ev("log", conn, "install_datadog", FALSE))
    /\ pc' = "finally"
    /\ UNCHANGED <<aux, opts, srv, conn, cur, todo, returned, gotList, nconn, faults,
                   outcome>>

\* install_datadog: finally: conn.commit(); conn.close().  With `conn' unbound
\* (the connect raised) conn.commit() raises UnboundLocalError to the caller.
Finally ==
    /\ pc = "finally"
    /\ IF conn = 0
       THEN /\ trace' = Append(trace, Ev("raise", 0, "UnboundLocalError", FALSE))
            /\ outcome' = "raised"
       ELSE /\ trace' = trace \o <<Ev("commit", conn, "install_datadog", TRUE),
                                   Ev("close", conn, "install_datadog", TRUE)>>
            /\ outcome' = "returned"
    /\ pc' = "done"
    /\ UNCHANGED <<aux, opts, srv, conn, cur, todo, returned, gotList, nconn, faults>>

Next ==
    \/ Connect
    \/ CreateUser
    \/ GrantRoles
    \/ GetAllDatabases
    \/ ForDone
    \/ ConnectDatabase
    \/ CreateSchemas
    \/ CreateExtension
    \/ GrantOnSchema
    \/ CreateFunction
    \/ InstallOnExcept
    \/ InstallOnFinally
    \/ Except
    \/ Finally

Spec == Init /\ [][Next]_vars


(***************************************************************************)
(* Reading the trace                                                       *)
(***************************************************************************)
Done == pc = "done"

\* The events of one kind, in order.
Events(kind) == SelectSeq(trace, LAMBDA e : e.ev = kind)

\* The statements sent, in order, as <<connection, text>>.
Statements ==
    LET ex == Events("execute") IN [i \in DOMAIN ex |-> <<ex[i].conn, ex[i].arg>>]

\* The operations invoked, in order, as <<connection, name>>.
Calls ==
    LET cs == Events("call") IN [i \in DOMAIN cs |-> <<cs[i].conn, cs[i].arg>>]

\* How many events satisfy a condition.
CountEv(P(_)) == Cardinality({i \in DOMAIN trace : P(trace[i])})

NothingFailed == \A i \in DOMAIN trace : trace[i].ev # "raise" /\ trace[i].ok

StartsWith(t, prefix) ==
    Len(t) >= Len(prefix) /\ SubSeq(t, 1, Len(prefix)) = prefix

\* A name the catalog query must never return.
Reserved(n) ==
    StartsWith(n, "template") \/ n = "cloudsqladmin" \/ n = "postgres"

(***************************************************************************)
(* C1: with all_databases false and nothing failing, install_datadog sends *)
(* exactly CREATE USER datadog, GRANT pg_monitor TO datadog, CREATE SCHEMA *)
(* IF NOT EXISTS datadog, CREATE EXTENSION IF NOT EXISTS                   *)
(* pg_stat_statements, GRANT USAGE ON SCHEMA datadog TO datadog, GRANT     *)
(* USAGE ON SCHEMA public TO datadog and the explain_statement DDL, in     *)
(* this order, all on the administrative connection, and attempts no       *)
(* second connection.                                                      *)
(***************************************************************************)
C1_SingleDatabaseSequence ==
    (Done /\ ~opts.all_databases /\ NothingFailed) =>
        /\ nconn = 1
        /\ Len(Statements) = 7
        /\ \A i \in 1..7 : Statements[i][1] = 1
        /\ StartsWith(Statements[1][2], "CREATE USER datadog WITH password '")
        /\ Statements[2][2] = "GRANT pg_monitor TO datadog;"
        /\ Statements[3][2] = "CREATE SCHEMA IF NOT EXISTS datadog;"
        /\ Statements[4][2] = "CREATE EXTENSION IF NOT EXISTS pg_stat_statements;"
        /\ Statements[5][2] = "GRANT USAGE ON SCHEMA datadog TO datadog;"
        /\ Statements[6][2] = "GRANT USAGE ON SCHEMA public TO datadog;"
        /\ StartsWith(Statements[7][2],
                      "\nCREATE OR REPLACE FUNCTION datadog.explain_statement (")

C1_Witness ==
    /\ Done /\ ~opts.all_databases /\ NothingFailed
    /\ opts.dbname = "postgres"
    /\ Len(Statements) = 7
    /\ srv.db["postgres"].fn = 1

(***************************************************************************)
(* C2: with all_databases true, every database get_all_databases returned  *)
(* gets exactly one connection attempt, and install_on runs exactly once   *)
(* on every such connection that opens, whatever failed before.            *)
(***************************************************************************)
C2_EveryDatabaseVisited ==
    (Done /\ opts.all_databases /\ gotList) =>
        \A k \in DOMAIN returned :
            /\ CountEv(LAMBDA e : e.ev = "connect" /\ e.conn # conn
                                  /\ e.arg = returned[k]) = 1
            /\ \A i \in DOMAIN trace :
                (trace[i].ev = "connect" /\ trace[i].conn # conn
                 /\ trace[i].arg = returned[k] /\ trace[i].ok) =>
                    CountEv(LAMBDA e : e.ev = "call" /\ e.arg = "install_on"
                                       /\ e.conn = trace[i].conn) = 1


(***************************************************************************)
(* C3: log-and-continue.  A failing statement is logged, its operation     *)
(* still commits and releases its cursor, and when statements are all that *)
(* fails the operations invoked are exactly those of a run where nothing   *)
(* fails, in the same order (a failed CREATE USER prevents neither GRANT   *)
(* pg_monitor nor any step of install_on).                                 *)
(***************************************************************************)
InstallOnCalls(c) ==
    <<<<c, "install_on">>, <<c, "psql_create_schemas">>,
      <<c, "psql_create_extension">>, <<c, "psql_grant_on_schema_to_user">>,
      <<c, "create_datadog_function">>>>

\* The operations of a run in which every operation returns normally.
ExpectedCalls ==
    <<<<1, "psql_create_user">>, <<1, "psql_grant_roles_to_user">>>>
    \o (IF opts.all_databases
        THEN <<<<1, "get_all_databases">>>>
             \o Flatten([k \in DOMAIN returned |-> InstallOnCalls(1 + k)])
        ELSE InstallOnCalls(1))

OnlyStatementsFailed ==
    \A i \in DOMAIN trace : trace[i].ev \in {"connect", "cursor"} => trace[i].ok

C3_LogAndContinue ==
    /\ \A i \in DOMAIN trace :
        (trace[i].ev = "execute" /\ ~trace[i].ok) =>
            /\ Len(trace) >= i + 3
            /\ trace[i + 1].ev = "log"
            /\ trace[i + 2].ev = "commit" /\ trace[i + 2].conn = trace[i].conn
            /\ trace[i + 3].ev = "cursor_close"
    /\ (Done /\ OnlyStatementsFailed) =>
            /\ outcome = "returned"
            /\ Calls = ExpectedCalls

C3_Witness ==
    /\ Done /\ OnlyStatementsFailed /\ opts.all_databases
    /\ Len(returned) = 2
    /\ \E i \in DOMAIN trace :
        /\ trace[i].ev = "execute" /\ ~trace[i].ok
        /\ StartsWith(trace[i].arg, "CREATE USER")
    /\ \E i \in DOMAIN trace :
        /\ trace[i].ev = "execute" /\ ~trace[i].ok
        /\ trace[i].conn = 2
    /\ Len(Calls) = 13

(***************************************************************************)
(* C5: get_all_databases never returns a name starting with 'template',    *)
(* nor 'cloudsqladmin', nor 'postgres', and returns nothing when the       *)
(* catalog query fails; so in all_databases mode no step of install_on     *)
(* runs against such a database, even with the administrative connection   *)
(* on 'postgres'.                                                          *)
(***************************************************************************)
InstallOperations ==
    {"install_on", "psql_create_schemas", "psql_create_extension",
     "psql_grant_on_schema_to_user", "create_datadog_function"}

C5_ReservedNeverTargeted ==
    /\ \A k \in DOMAIN returned : ~Reserved(returned[k])
    /\ (\E i \in DOMAIN trace :
            /\ trace[i].ev = "execute" /\ ~trace[i].ok
            /\ StartsWith(trace[i].arg, "SELECT datname")) => returned = <<>>
    /\ opts.all_databases =>
        \A i \in DOMAIN trace :
            (trace[i].ev = "call" /\ trace[i].arg \in InstallOperations) =>
                ~Reserved(ConnDb(trace[i].conn))

C5_Witness ==
    /\ Done /\ opts.all_databases /\ opts.dbname = "postgres"
    /\ srv.databases = Names
    /\ Len(returned) = 2
    /\ CountEv(LAMBDA e : e.ev = "call" /\ e.arg = "create_datadog_function") = 2

(***************************************************************************)
(* C6: whenever the administrative connection opens, CREATE USER and GRANT *)
(* pg_monitor are each attempted exactly once, on the administrative       *)
(* connection, before install_on.                                          *)
(***************************************************************************)
C6_UserCreatedOnce ==
    (Done /\ conn # 0) =>
        /\ CountEv(LAMBDA e : e.ev = "call" /\ e.arg = "psql_create_user") = 1
        /\ CountEv(LAMBDA e : e.ev = "call"
                              /\ e.arg = "psql_grant_roles_to_user") = 1
        /\ Len(Calls) >= 2
        /\ Calls[1] = <<conn, "psql_create_user">>
        /\ Calls[2] = <<conn, "psql_grant_roles_to_user">>

(***************************************************************************)
(* C9: install_datadog returns normally in every execution: no failure of  *)
(* a statement, a cursor acquisition or a connection attempt leaves it as  *)
(* an exception.                                                           *)
(***************************************************************************)
C9_ReturnsNormally == Done => outcome = "returned"

(***************************************************************************)
(* C10: the administrative connection, once opened, is closed exactly      *)
(* once, as the last thing install_datadog does (after every install_on,   *)
(* with no statement after it); the per-database connections are never     *)
(* closed.                                                                 *)
(***************************************************************************)
C10_ConnectionLifecycle ==
    /\ \A i \in DOMAIN trace :
        trace[i].ev = "close" =>
            /\ trace[i].conn = conn /\ conn = 1
            /\ i = Len(trace)
            /\ Done
    /\ (Done /\ conn # 0) =>
        /\ trace[Len(trace)] = Ev("close", conn, "install_datadog", TRUE)
        /\ CountEv(LAMBDA e : e.ev = "close") = 1

C10_Witness ==
    /\ Done /\ opts.all_databases
    /\ CountEv(LAMBDA e : e.ev = "connect" /\ e.ok) = 3
    /\ CountEv(LAMBDA e : e.ev = "call" /\ e.arg = "create_datadog_function") = 2
    /\ trace[Len(trace)].ev = "close"


(***************************************************************************)
(* psql_grant_on_schema_to_user on its own, for every pair of lists        *)
(***************************************************************************)
SeqsUpTo(S, n) == UNION {[1..k -> S] : k \in 0..n}

GrantInputs ==
    [schemas : SeqsUpTo(SchemaNames, MaxSchemas),
     grants : SeqsUpTo({"USAGE", "CREATE"}, MaxGrants)]

\* An explain_statement left by an earlier version of the script.
OlderFunction == "CREATE FUNCTION datadog.explain_statement (...) ..."

\* The states of one database the script can meet: what it installs itself,
\* present or absent (a function or a grant on a schema needs the schema, a
\* grant needs the role).
DbStates(R) ==
    {d \in [schemas : {[n \in SchemaNames |->
                            IF n = "public" THEN 1
                            ELSE IF n = DD_SCHEMA THEN sc ELSE other] :
                                sc \in 0..1, other \in 0..1},
            ext : 0..1, fn : 0..1, fnText : {"", OlderFunction, DD_FUNCTION},
            usage : SUBSET {<<"USAGE", DD_SCHEMA, DD_USER>>,
                            <<"USAGE", "public", DD_USER>>}] :
        /\ d.fn = 1 => d.schemas[DD_SCHEMA] = 1
        /\ d.fn = 0 <=> d.fnText = ""
        /\ <<"USAGE", DD_SCHEMA, DD_USER>> \in d.usage => d.schemas[DD_SCHEMA] = 1
        /\ d.usage # {} => DD_USER \in R}

\* Servers whose database "app" is in any of these states.
AppServers ==
    UNION {{[databases |-> {"app"}, roles |-> R, members |-> {},
             db |-> [n \in Names |-> IF n = "app" THEN d ELSE FreshDb]] :
                d \in DbStates(R)} :
           R \in {{"pg_monitor"}, {"pg_monitor", DD_USER}}}

DefaultOptions ==
    [host |-> "localhost", port |-> "5432", username |-> "postgres",
     password |-> "postgres", dbname |-> "app", all_databases |-> FALSE,
     dd_password |-> None]

\* An open connection to "app" and nothing else done.
OnApp ==
    /\ opts = DefaultOptions
    /\ srv \in AppServers
    /\ conn = 1
    /\ cur = 1
    /\ nconn = 1
    /\ todo = <<>>
    /\ returned = <<>>
    /\ gotList = FALSE
    /\ outcome = "running"
    /\ runs = 0
    /\ after1 = <<>>

InitGrants ==
    /\ OnApp
    /\ input \in GrantInputs
    /\ trace = <<Ev("connect", 1, "app", TRUE)>>
    /\ pc = "grant_call"
    /\ faults = 0

\* psql_grant_on_schema_to_user(conn, schemas, grants, DD_USER)
GrantCall ==
    /\ pc = "grant_call"
    /\ \E f \in FaultChoices(Len(input.schemas) * Len(input.grants)) :
        LET r == psql_grant_on_schema_to_user(srv, cur, ConnDb(cur),
                     input.schemas, input.grants, DD_USER, f)
        IN /\ faults' = Count(f)
           /\ srv' = r.srv
           /\ trace' = trace \o r.events
           /\ outcome' = IF r.raised THEN "raised" ELSE "returned"
    /\ pc' = "done"
    /\ UNCHANGED <<aux, opts, conn, cur, todo, returned, gotList, nconn>>

NextGrants == GrantCall

SpecGrants == InitGrants /\ [][NextGrants]_vars

\* The n-th GRANT of the cross product, grants outer, schemas inner.
ExpectedGrant(n) ==
    LET g == ((n - 1) \div Len(input.schemas)) + 1
        k == ((n - 1) % Len(input.schemas)) + 1
    IN "GRANT " \o input.grants[g] \o " ON SCHEMA " \o input.schemas[k]
       \o " TO datadog;"

CursorAcquired == \E i \in DOMAIN trace : trace[i].ev = "cursor" /\ trace[i].ok

(***************************************************************************)
(* C4 as stated: psql_grant_on_schema_to_user issues exactly               *)
(* |grants| x |schemas| GRANT statements in every execution, also when one *)
(* of them fails.                                                          *)
(***************************************************************************)
C4_AlwaysFullCrossProduct ==
    (Done /\ CursorAcquired) =>
        Len(Statements) = Len(input.grants) * Len(input.schemas)

(***************************************************************************)
(* C4 amended: the GRANT statements issued are the cross product in        *)
(* grants-outer/schemas-inner order up to and including the first          *)
(* statement that fails: all |grants| x |schemas| of them when the cursor  *)
(* is acquired and none fails, none when the cursor is not acquired.       *)
(***************************************************************************)
C4_CrossProductUntilFailure ==
    Done =>
        LET ex == Events("execute")
            total == Len(input.grants) * Len(input.schemas)
        IN /\ Len(ex) <= total
           /\ \A n \in DOMAIN ex : Statements[n] = <<1, ExpectedGrant(n)>>
           /\ \A n \in DOMAIN ex : ~ex[n].ok => n = Len(ex)
           /\ (CursorAcquired /\ \A n \in DOMAIN ex : ex[n].ok) => Len(ex) = total
           /\ ~CursorAcquired => Len(ex) = 0

C4_Witness ==
    /\ Done
    /\ input.grants = <<"USAGE", "CREATE">>
    /\ input.schemas = <<DD_SCHEMA, "public">>
    /\ Len(Statements) = 3
    /\ ~Events("execute")[3].ok
    /\ Statements[3][2] = "GRANT CREATE ON SCHEMA datadog TO datadog;"

(***************************************************************************)
(* install_on twice against one database, nothing injected                 *)
(***************************************************************************)
InitIdem ==
    /\ OnApp
    /\ input = <<>>
    /\ trace = <<Ev("connect", 1, "app", TRUE), Ev("call", 1, "install_on", TRUE)>>
    /\ pc = "create_schemas"
    /\ faults = MaxFaults

\* install_on: finally: conn.commit(), and the next call of install_on(conn)
InstallOnReturn ==
    /\ pc = "install_on_finally"
    /\ runs' = runs + 1
    /\ after1' = IF runs = 0 THEN [srv |-> srv, len |-> Len(trace) + 1]
                 ELSE after1
    /\ IF runs + 1 < MaxRuns
       THEN /\ trace' = trace \o <<Ev("commit", cur, "install_on", TRUE),
                                   Ev("call", cur, "install_on", TRUE)>>
            /\ pc' = "create_schemas"
       ELSE /\ trace' = Append(trace, Ev("commit", cur, "install_on", TRUE))
            /\ pc' = "done"
    /\ UNCHANGED <<input, opts, srv, conn, cur, todo, returned, gotList, nconn,
                   faults, outcome>>

NextIdem ==
    \/ CreateSchemas
    \/ CreateExtension
    \/ GrantOnSchema
    \/ CreateFunction
    \/ InstallOnReturn

SpecIdem == InitIdem /\ [][NextIdem]_vars

\* A statement failed after the first call of install_on returned.
LaterRunFailed ==
    \E i \in DOMAIN trace :
        i > after1.len /\ trace[i].ev = "execute" /\ ~trace[i].ok

NoDuplicates ==
    /\ srv.db["app"].schemas[DD_SCHEMA] <= 1
    /\ srv.db["app"].ext <= 1
    /\ srv.db["app"].fn <= 1

(***************************************************************************)
(* C7 as stated: from every state of the database, install_on run twice    *)
(* leaves what one run leaves, the second run raises no statement error,   *)
(* and there is never more than one datadog schema, pg_stat_statements     *)
(* extension or explain_statement function.                                *)
(***************************************************************************)
C7_Idempotent ==
    /\ NoDuplicates
    /\ runs >= 2 => (srv = after1.srv /\ ~LaterRunFailed)

(***************************************************************************)
(* C7 amended: the same, the second run raising no statement error         *)
(* provided the role datadog exists on the server; without the role the    *)
(* one statement that fails, in any run, is GRANT USAGE ON SCHEMA datadog. *)
(***************************************************************************)
C7_IdempotentGivenRole ==
    /\ NoDuplicates
    /\ runs >= 2 => srv = after1.srv
    /\ (runs >= 2 /\ DD_USER \in srv.roles) => ~LaterRunFailed
    /\ \A i \in DOMAIN trace :
        (trace[i].ev = "execute" /\ ~trace[i].ok) =>
            /\ DD_USER \notin srv.roles
            /\ trace[i].arg = "GRANT USAGE ON SCHEMA datadog TO datadog;"

C7_Witness ==
    /\ runs = 2 /\ Done
    /\ DD_USER \in srv.roles
    /\ Len(Statements) = 10
    /\ \A i \in DOMAIN trace : trace[i].ok
    /\ srv.db["app"] =
         [schemas |-> [n \in SchemaNames |-> IF n = "reports" THEN 0 ELSE 1],
          ext |-> 1, fn |-> 1, fnText |-> DD_FUNCTION,
          usage |-> {<<"USAGE", DD_SCHEMA, DD_USER>>,
                     <<"USAGE", "public", DD_USER>>}]


(***************************************************************************)
(* The command line: create_common_psql_flags, the other flags of          *)
(* __main__, parse_args and main's dispatch                                *)
(***************************************************************************)
\* a or b, on strings and None
PyOr(a, b) == IF a = None \/ a = "" THEN b ELSE a

\* The defaults create_common_psql_flags registers; env[k] = None when the
\* environment has no k.  parser.get_default("username") is the default
\* registered for --username just before.
create_common_psql_flags(env) ==
    LET username == PyOr(env.PGUSER, "postgres")
    IN [host |-> PyOr(env.PGHOST, "localhost"),
        port |-> PyOr(env.PGPORT, "5432"),
        username |-> username,
        password |-> PyOr(env.PGPASSWORD, username),
        dbname |-> PyOr(env.PGDATABASE, username)]

\* parser.parse_args(): a flag given on the command line wins over its default.
parse_args(defaults, argv) ==
    LET pick(given, default) == IF given = None THEN default ELSE given
    IN [host |-> pick(argv.host, defaults.host),
        port |-> pick(argv.port, defaults.port),
        username |-> pick(argv.username, defaults.username),
        password |-> pick(argv.password, defaults.password),
        dbname |-> pick(argv.dbname, defaults.dbname),
        install |-> TRUE,
        remove |-> argv.remove,
        all_databases |-> argv.all_databases,
        dd_password |-> argv.dd_password]

Environments ==
    [PGHOST : {None, "db.internal"}, PGPORT : {None, "6432"},
     PGUSER : {None, "", "carol"}, PGPASSWORD : {None, "", "hunter2"},
     PGDATABASE : {None, "", "shop"}]

CommandLines ==
    [host : {None, "10.0.0.5"}, port : {None, "5433"},
     username : {None, "alice"}, password : {None, "pw"},
     dbname : {None, "app"}, remove : BOOLEAN, all_databases : BOOLEAN,
     dd_password : {None, "s3cret"}]

InitFlags ==
    /\ input \in [env : Environments, argv : CommandLines]
    /\ opts = <<>>
    /\ srv = <<>>
    /\ trace = <<>>
    /\ pc = "parse_args"
    /\ conn = 0
    /\ cur = 0
    /\ todo = <<>>
    /\ returned = <<>>
    /\ gotList = FALSE
    /\ nconn = 0
    /\ faults = 0
    /\ outcome = "running"
    /\ runs = 0
    /\ after1 = <<>>

\* create_common_psql_flags(parser); ...; args = parser.parse_args()
ParseArgs ==
    /\ pc = "parse_args"
    /\ opts' = parse_args(create_common_psql_flags(input.env), input.argv)
    /\ pc' = "main"
    /\ UNCHANGED <<aux, srv, trace, conn, cur, todo, returned, gotList, nconn,
                   faults, outcome>>

\* main(opts): remove_datadog only logs that it is not implemented
MainRemove ==
    /\ pc = "main"
    /\ opts.remove
    /\ trace' = Append(trace, Ev("log", 0, "Function not implemented yet", FALSE))
    /\ pc' = "done"
    /\ outcome' = "returned"
    /\ UNCHANGED <<aux, opts, srv, conn, cur, todo, returned, gotList, nconn,
                   faults>>

\* main(opts): install_datadog(opts) is entered
MainInstall ==
    /\ pc = "main"
    /\ ~opts.remove
    /\ pc' = "install_datadog"
    /\ UNCHANGED <<aux, opts, srv, trace, conn, cur, todo, returned, gotList,
                   nconn, faults, outcome>>

NextFlags ==
    \/ ParseArgs
    \/ MainRemove
    \/ MainInstall

SpecFlags == InitFlags /\ [][NextFlags]_vars

\* --username if given, else PGUSER, else 'postgres'
EffectiveUsername ==
    IF input.argv.username # None THEN input.argv.username
    ELSE PyOr(input.env.PGUSER, "postgres")

(***************************************************************************)
(* C8: when neither --password nor PGPASSWORD is given the password is the *)
(* effective username (--username, else PGUSER, else 'postgres'), and when *)
(* neither --dbname nor PGDATABASE is given the database name is that same *)
(* effective username.                                                     *)
(***************************************************************************)
C8_DefaultsFollowUsername ==
    pc # "parse_args" =>
        /\ (input.argv.password = None /\ input.env.PGPASSWORD = None) =>
                opts.password = EffectiveUsername
        /\ (input.argv.dbname = None /\ input.env.PGDATABASE = None) =>
                opts.dbname = EffectiveUsername


====
